---- MODULE Spec2Model ----
(***************************************************************************)
(* The batch-translation orchestration engine of gpt-subtrans:             *)
(* SubtitleTranslator.TranslateSubtitles / TranslateScene /                *)
(* TranslateBatches / ProcessTranslation / RequestRetranslations, run as   *)
(* one sequential thread, with StopTranslating callable from another       *)
(* thread at any moment.  The translation client and the parser are the    *)
(* environment: each of their results is drawn from a small set.           *)
(* A call of InstructGPTClient._send_messages is a second, separate        *)
(* specification (SpecClient) over the same abort flag.                    *)
(* A translator that is stopped and then called again is a third           *)
(* (SpecAgain).                                                            *)
(* SanitiseSummary, the merging of contexts and the update of the rolling  *)
(* context have no side effect on the run: each is applied, in a           *)
(* specification of its own, to every argument of a bounded set.           *)
(*                                                                         *)
(* One step of the run is the code between two reads of self.aborted or    *)
(* two client calls: nothing another thread does in between is observed.   *)
(***************************************************************************)
EXTENDS Integers, Sequences, FiniteSets, TLC

\* ------------------------------------------------------------- bounds
NumScenes == 2
LinesPerBatch == 2
MaxLines == 3
MaxFaults == 2
MaxRetries == 2
MaxWaits == 2
MaxLen == 6
NumKeys == 2

\* ----------------------------------------------------------- document
Scenes == 1..NumScenes

\* The first scene holds two batches, every later scene one.
BatchNumbers(s) == IF s = 1 THEN {1, 2} ELSE {1}

Batches == { <<s, n>> : s \in Scenes, n \in {1, 2} } \cap
           { b \in Scenes \X {1, 2} : b[2] \in BatchNumbers(b[1]) }

\* Position of a batch in document order.
BatchIndex(b) == IF b[1] = 1 THEN b[2] ELSE b[1] + 1

\* The batch at position i of the document.
BatchAt(i) == CHOOSE b \in Batches : BatchIndex(b) = i

\* Line numbers are unique and increase through the whole document.
Lines(b) == ((BatchIndex(b) - 1) * LinesPerBatch + 1) .. (BatchIndex(b) * LinesPerBatch)

NumLines == (NumScenes + 1) * LinesPerBatch

\* A line number the service may answer with that no batch of the document owns.
ForeignLine == NumLines + 1

FirstLines(b, k) == { l \in Lines(b) : l < (BatchIndex(b) - 1) * LinesPerBatch + 1 + k }

Max(a, b) == IF a > b THEN a ELSE b

\* ------------------------------------------------------------- options
Flags == {"resume", "retranslate", "reparse", "preview", "stop_on_error",
          "allow_retranslations", "enforce_line_parity"}

VARIABLES
    options,         \* the Options snapshot: the set of flags that are set
    max_lines,       \* options.get('max_lines'); 0 when unset
    aborted,         \* SubtitleTranslator.aborted and, set with it, the client's
    has_scenes,      \* subtitles.scenes is not empty
    has_lines,       \* AutoBatch has lines to make scenes from
    batch,           \* per batch: translated, translation, errors, summary
    pc,              \* where the run is
    outcome,         \* how TranslateSubtitles ended
    scene,           \* the scene of the loop in TranslateSubtitles
    todo,            \* `batches` of TranslateBatches: batch numbers, in order
    bidx,            \* index into todo
    remaining_lines, \* remaining_lines of TranslateSubtitles
    batch_remaining, \* remaining_lines of TranslateBatches
    originals,       \* `originals` of TranslateBatches: the lines sent
    translation,     \* `translation` of TranslateBatches: the raw result in hand
    translated,      \* `translated` of ProcessTranslation: the first pass' matches
    requests,        \* per batch: calls of client.RequestTranslation
    repairs,         \* per batch: calls of client.RequestRetranslation
    dispatched,      \* per batch: lines handed to client.RequestTranslation
    auto_batched,    \* calls of subtitles.AutoBatch
    faults,          \* results so far that were not a full, valid translation
    quota,           \* batches a request of which was answered with quota_reached
    fatal,           \* Aborted / Impossible conditions raised below TranslateSubtitles
    answer,          \* the last result the client, or a batch's store, handed over
    no_context,      \* batches a request for which was made with context None
    events,          \* notifications emitted, in order
    subtitles,       \* subtitles.originals and subtitles.translated, and who wrote them
    max_retries,     \* options.get('max_retries') of the client
    retries,         \* `retries` of InstructGPTClient._send_messages
    waits,           \* times _send_messages slept on a rate limit
    response,        \* what client.completions.create did last
    reply,           \* how _send_messages ended
    sent,            \* calls of client.completions.create
    slept,           \* the sleeps of _send_messages, in order
    arg,             \* the argument of a call of a function of no side effect
    result           \* what that call returned

vars == <<options, max_lines, aborted, has_scenes, has_lines, batch, pc, outcome,
          scene, todo, bidx, remaining_lines, batch_remaining, originals,
          translation, translated, requests, repairs, dispatched, auto_batched,
          faults, quota, fatal, answer, no_context, events, subtitles, max_retries, retries,
          waits, response, reply, sent, slept, arg, result>>

\* The state of a call of InstructGPTClient._send_messages.
client == <<max_retries, retries, waits, response, reply, sent, slept>>

\* The state of the run of SubtitleTranslator, but for pc and aborted.
translator == <<options, max_lines, has_scenes, has_lines, batch, outcome, scene, todo,
                bidx, remaining_lines, batch_remaining, originals, translation,
                translated, requests, repairs, dispatched, auto_batched, faults,
                quota, fatal, answer, no_context, events, subtitles>>

\* A call of a function of no side effect.
call == <<arg, result>>

\* No such call is under way.
NoCall == arg = "none" /\ result = "none"

Opt(f) == f \in options

\* ------------------------------------------------------ document model
\* A set of line numbers as translated lines, each tagged with where its text
\* comes from: "old" (an earlier run), "new" (this run's request or reparse),
\* "rep" (this run's repair round).
Mark(S, tag) == [l \in S |-> tag]

Numbers(tr) == DOMAIN tr

\* A batch as an earlier run can have left it: untouched ("fresh"), with its
\* first line translated and the others recorded as an error ("partial"), with
\* all of its lines translated ("full").
Prior(b, kind) ==
    CASE kind = "fresh" ->
           [translated |-> Mark({}, "old"), translation |-> "none", errors |-> {},
            summary |-> "none"]
      [] kind = "partial" ->
           [translated |-> Mark(FirstLines(b, 1), "old"), translation |-> "old",
            errors |-> {"Untranslated"}, summary |-> "old"]
      [] OTHER ->
           [translated |-> Mark(Lines(b), "old"), translation |-> "old", errors |-> {},
            summary |-> "old"]

\* The documents whose batches are each of one of the kinds K.
Documents(K) == { [b \in Batches |-> Prior(b, k[b])] : k \in [Batches -> K] }

\* SubtitleBatch.all_translated: every original line number has a translation.
BatchAllTranslated(b) == Lines(b) \subseteq Numbers(batch[b].translated)

\* SubtitleBatch.translated is truthy: the batch has some translated line.
BatchAnyTranslated(b) == Numbers(batch[b].translated) # {}

\* SubtitleScene.all_translated
SceneAllTranslated(s) == \A n \in BatchNumbers(s) : BatchAllTranslated(<<s, n>>)

\* SubtitleScene.linecount: the sizes of the scene's batches, summed.
SceneLineCount(s) == Cardinality(BatchNumbers(s)) * LinesPerBatch

\* Helpers.UnbatchScenes: the document's translated lines are those of its
\* batches; the other lines of the document are untranslated.
Translations == UNION { Numbers(batch[b].translated) : b \in Batches }

Untranslated == (1..NumLines) \ Translations

\* Helpers.MergeTranslations: by line number, the second argument's entry wins.
MergeTranslations(lines, tr) ==
    [k \in (DOMAIN lines) \cup (DOMAIN tr) |-> IF k \in DOMAIN tr THEN tr[k] ELSE lines[k]]

\* ---------------------------------------------------------- environment
Plain(kind) == [kind |-> kind, parsed |-> {}, valid |-> TRUE, summary |-> FALSE]

NoResult == Plain("None")

\* What the parser can find in a response for batch b: translations for the
\* first k lines of the batch, or for all of them and a line no batch owns.
ParsedSets(b) ==
    { FirstLines(b, k) : k \in 0..LinesPerBatch } \cup { Lines(b) \cup {ForeignLine} }

\* A Translation with text: the lines the parser finds in it, and whether
\* ValidateTranslations accepts them. It carries a summary.
TextResults(b) ==
    [kind : {"Text"}, parsed : ParsedSets(b), valid : BOOLEAN, summary : {TRUE}]

\* The result of a service that works: every line of the batch, valid.
Clean(b) == [kind |-> "Text", parsed |-> Lines(b), valid |-> TRUE, summary |-> TRUE]

\* Any other result is a fault of the service, but for the client's Aborted,
\* which answers StopTranslating. A run meets at most MaxFaults faults.
IsFault(b, r) == r.kind # "RaiseAborted" /\ [r EXCEPT !.summary = TRUE] # Clean(b)

\* The client raises Aborted only when the abort signal has been given.
Raises == {Plain("RaiseImpossible"), Plain("RaiseFailed")} \cup
          (IF aborted THEN {Plain("RaiseAborted")} ELSE {})

\* client.RequestTranslation: a Translation (quota_reached, reached_token_limit,
\* without text, with text) or a typed failure.
RequestResults(b) ==
    {Plain("Quota"), Plain("TokenLimit"), Plain("Empty")} \cup Raises \cup TextResults(b)

\* client.RequestRetranslation: a Translation, something else, or a typed failure.
RetranslationResults(b) ==
    {Plain("NotTranslation")} \cup Raises \cup
    [kind : {"Text"}, parsed : ParsedSets(b), valid : BOOLEAN, summary : {FALSE}]

\* A stored raw result, read again: with or without text.
StoredResults(b) == {Plain("Empty")} \cup TextResults(b)

Raised(r) ==
    CASE r.kind = "RaiseImpossible" -> "Impossible"
      [] r.kind = "RaiseFailed" -> "Error"
      [] r.kind = "RaiseAborted" -> "Aborted"
      [] OTHER -> "none"

\* ----------------------------------------------------------- exceptions
\* The subclasses of TranslationError; "Value" (ValueError) is none.
TranslationErrors == {"Aborted", "Impossible", "Failed", "Error", "Untranslated",
                      "Validation"}

\* TranslateBatchesExcept of handlers that do not ask for stop_on_error.
TranslateBatchesExcept_AlwaysFatal(e) ==
    IF e = "none" THEN "none"
    ELSE IF e = "Aborted" THEN "Aborted"
    ELSE IF e \in TranslationErrors THEN "Failed"
    ELSE e

\* TranslateBatchesExcept of handlers that only log what is not Impossible.
TranslateBatchesExcept_Swallow(e) ==
    IF e = "none" THEN "none"
    ELSE IF e = "Aborted" THEN "Aborted"
    ELSE IF e \in TranslationErrors
         THEN IF e = "Impossible" THEN "Failed" ELSE "none"
    ELSE e

\* TranslateBatches, the handlers of its try statement: the exception that
\* leaves it, "none" when the batch loop goes on.
TranslateBatchesExcept(e) ==
    IF e = "none" THEN "none"
    ELSE IF e = "Aborted" THEN "Aborted"
    ELSE IF e \in TranslationErrors
         THEN IF Opt("stop_on_error") \/ e = "Impossible" THEN "Failed" ELSE "none"
    ELSE e

\* TranslateScene, the handlers of its try statement.
TranslateSceneExcept(e) ==
    IF e = "Aborted" THEN "Aborted"
    ELSE IF Opt("stop_on_error") THEN e ELSE "none"

\* ProcessTranslationExcept of a handler that logs whatever stop_on_error says.
ProcessTranslationExcept_Swallow(e) == IF e \in TranslationErrors THEN "none" ELSE e

\* ProcessTranslation, the handler of its outer try statement.
ProcessTranslationExcept(e) ==
    IF e \in TranslationErrors
    THEN IF Opt("stop_on_error") THEN e ELSE "none"
    ELSE e

\* -------------------------------------------------- the run's control
\* TranslateSubtitles ends: with an exception, or after UnbatchScenes.
Ended(out, rl, ev) ==
    [pc |-> "Done", outcome |-> out, scene |-> 0, todo |-> <<>>, bidx |-> 0,
     remaining_lines |-> rl, batch_remaining |-> 0, events |-> ev]

\* The scene loop of TranslateSubtitles goes on after scene s.
NextScene(s, rl, ev) ==
    IF s = NumScenes
    THEN Ended("ok", rl, ev)
    ELSE [pc |-> "SceneLoop", outcome |-> "running", scene |-> s + 1, todo |-> <<>>,
          bidx |-> 0, remaining_lines |-> rl, batch_remaining |-> 0, events |-> ev]

\* TranslateSubtitles after TranslateScene returned: the line budget.
AfterScene(s, rl, ev) ==
    IF rl > 0
    THEN IF Max(0, rl - SceneLineCount(s)) = 0
         THEN Ended("ok", 0, ev)
         ELSE NextScene(s, rl - SceneLineCount(s), ev)
    ELSE NextScene(s, rl, ev)

\* TranslateScene after TranslateBatches returned (e = "none") or raised e.
SceneDone(s, e, rl, ev) ==
    IF e = "none"
    THEN AfterScene(s, rl, Append(ev, <<"scene_translated", s>>))
    ELSE IF TranslateSceneExcept(e) = "none"
         THEN AfterScene(s, rl, ev)
         ELSE Ended(TranslateSceneExcept(e), rl, ev)

\* The batch loop of TranslateBatches goes on to its next batch.
NextBatch(br, ev) ==
    IF bidx = Len(todo)
    THEN SceneDone(scene, "none", remaining_lines, ev)
    ELSE [pc |-> "BatchLoop", outcome |-> "running", scene |-> scene, todo |-> todo,
          bidx |-> bidx + 1, remaining_lines |-> remaining_lines,
          batch_remaining |-> br, events |-> ev]

\* The budget left after a batch that sent the lines orig.
BudgetAfter(orig) ==
    IF batch_remaining > 0 THEN Max(0, batch_remaining - Cardinality(orig))
    ELSE batch_remaining

\* TranslateBatches from the end of its try statement, left with exception e
\* ("none": normally), for the batch that sent the lines orig.
BatchDone(e, orig) ==
    IF TranslateBatchesExcept(e) # "none"
    THEN SceneDone(scene, TranslateBatchesExcept(e), remaining_lines, events)
    ELSE IF batch_remaining > 0 /\ BudgetAfter(orig) = 0
         THEN SceneDone(scene, "none", remaining_lines, events)
         ELSE NextBatch(BudgetAfter(orig),
                        Append(events, <<"batch_translated", <<scene, todo[bidx]>>>>))

SetControl(c) ==
    /\ pc' = c.pc
    /\ outcome' = c.outcome
    /\ scene' = c.scene
    /\ todo' = c.todo
    /\ bidx' = c.bidx
    /\ remaining_lines' = c.remaining_lines
    /\ batch_remaining' = c.batch_remaining
    /\ events' = c.events

ClearLocals ==
    /\ originals' = {}
    /\ translation' = NoResult
    /\ translated' = Mark({}, "new")

\* The members of a set of numbers, in increasing order.
InOrder(S) ==
    CHOOSE q \in [1..Cardinality(S) -> S] : \A i, j \in 1..Cardinality(S) : i < j => q[i] < q[j]

\* --------------------------------------------------- response processing
\* Truncate without the cut to the budget.
Truncate_Whole(b) == Lines(b)

\* TranslateBatches: the lines of the batch to send, cut to the budget left.
\* No line of the document is blank.
Truncate(b) ==
    IF batch_remaining > 0 /\ Cardinality(Lines(b)) > batch_remaining
    THEN FirstLines(b, batch_remaining)
    ELSE Lines(b)

\* TranslationParser.MatchTranslations: a parsed entry matches when its line
\* number is one of the originals'; originals without an entry are unmatched.
MatchTranslations(b, parsed) ==
    [translated |-> Mark(parsed \cap Lines(b), "new"), unmatched |-> Lines(b) \ parsed]

\* FirstPassError of a ProcessTranslation that takes an unmatched line for an
\* error whatever enforce_line_parity says.
FirstPassError_Strict(b, r) ==
    IF MatchTranslations(b, r.parsed).unmatched # {}
    THEN "Untranslated"
    ELSE IF ~r.valid THEN "Validation" ELSE "none"

\* ProcessTranslation, its inner try block: the exception raised in it.
FirstPassError(b, r) ==
    IF MatchTranslations(b, r.parsed).unmatched # {} /\ Opt("enforce_line_parity")
    THEN "Untranslated"
    ELSE IF ~r.valid THEN "Validation" ELSE "none"

\* ProcessTranslation, the handler of its inner try statement: the exception
\* that leaves it, and batch.errors.
FirstPass(b, r) ==
    IF FirstPassError(b, r) = "none"
    THEN [raised |-> "none", errors |-> {}]
    ELSE IF ~Opt("allow_retranslations")
         THEN [raised |-> FirstPassError(b, r), errors |-> {}]
         ELSE [raised |-> "none", errors |-> {FirstPassError(b, r)}]

\* ShouldRetry of a ProcessTranslation that never asks for a repair.
ShouldRetry_Never(errors) == FALSE

\* ProcessTranslation, "consider retrying", before it reads self.aborted.
ShouldRetry(errors) == errors # {} /\ Opt("allow_retranslations")

\* RequestRetranslations of a repair that records no unmatched line.
RequestRetranslations_Forgetful(b, rr, errors) ==
    [retranslated |-> Mark(rr.parsed, "rep"), errors |-> {}]

\* RequestRetranslations on a Translation rr: what it returns, and batch.errors.
RequestRetranslations(b, rr, errors) ==
    IF rr.parsed = {}
    THEN [retranslated |-> Mark({}, "rep"), errors |-> errors]
    ELSE [retranslated |-> Mark(rr.parsed, "rep"),
          errors |-> IF MatchTranslations(b, rr.parsed).unmatched # {}
                     THEN {"Untranslated"} ELSE {}]

\* Commit of a ProcessTranslation that does not assign to the batch.
Commit_Nothing(rec, tr, r) == rec

\* ProcessTranslation from "assign the translated lines to the batch" on:
\* batch.translated, and batch.summary unless this is a retranslation pass.
Commit(rec, tr, r) ==
    [rec EXCEPT !.translated = tr,
                !.summary = IF ~Opt("retranslate") /\ r.summary THEN "new" ELSE @]

\* batch.translation = translation, for a new result.
Store(rec, isNew) == [rec EXCEPT !.translation = IF isNew THEN "new" ELSE @]

\* The numbers of S, the smallest first.
ByNumber(S) == SelectSeq([i \in 1..(NumLines + 1) |-> i], LAMBDA l : l \in S)

\* The original lines of the batches, batch after batch in document order. No
\* step of the run adds or removes an original line.
DocumentLines ==
    LET lines[i \in 0..(NumScenes + 1)] ==
            IF i = 0 THEN <<>> ELSE lines[i - 1] \o ByNumber(Lines(BatchAt(i)))
    IN  lines[NumScenes + 1]

\* subtitles.originals and subtitles.translated as the run finds them: the
\* lines of the file, if it has any, and no translation.
Before(lines) ==
    [by |-> "old", originals |-> IF lines THEN DocumentLines ELSE <<>>, translated |-> <<>>]

\* Helpers.UnbatchScenes: the original lines and the translated lines of the
\* batches bs, batch after batch in document order.
UnbatchScenes(bs) ==
    LET translations[i \in 0..(NumScenes + 1)] ==
            IF i = 0 THEN <<>>
            ELSE translations[i - 1] \o ByNumber(Numbers(bs[BatchAt(i)].translated))
    IN  [by |-> "run", originals |-> DocumentLines,
         translated |-> translations[NumScenes + 1]]

\* SetProjections of a TranslateSubtitles that linearises however it ends.
SetProjections_AnyEnd ==
    subtitles' = IF pc' = "Done" THEN UnbatchScenes(batch') ELSE subtitles

\* TranslateSubtitles past its scene loop: the scenes are linearised and
\* subtitles.originals and subtitles.translated assigned. No exception gets there.
SetProjections ==
    subtitles' = IF pc' = "Done" /\ outcome' = "ok" THEN UnbatchScenes(batch') ELSE subtitles

\* ------------------------------------------------------------- actions
Current == <<scene, todo[bidx]>>

Leave(c) == SetControl(c) /\ ClearLocals

Bump(f, b) == [f EXCEPT ![b] = @ + 1]

\* The environment hands over result r for batch b.
Hands(b, r) ==
    /\ IsFault(b, r) => faults < MaxFaults
    /\ faults' = IF IsFault(b, r) THEN faults + 1 ELSE faults
    /\ quota' = IF r.kind = "Quota" THEN quota \cup {b} ELSE quota
    /\ answer' = r

\* Exception e is raised below TranslateSubtitles.
Raise(e) == fatal' = IF e \in {"Aborted", "Impossible"} THEN fatal \cup {e} ELSE fatal

\* The state after SubtitleTranslator.__init__: options in O, max_lines in M,
\* a document of D when the subtitles have scenes, and else no batch touched
\* yet, with or without lines for AutoBatch to make scenes from.
InitOf(O, M, batched, D) ==
    /\ options \in O
    /\ max_lines \in M
    /\ aborted = FALSE
    /\ has_scenes = batched
    /\ has_lines \in (IF batched THEN {TRUE} ELSE BOOLEAN)
    /\ batch \in D
    /\ pc = "Start"
    /\ outcome = "running"
    /\ scene = 0
    /\ todo = <<>>
    /\ bidx = 0
    /\ remaining_lines = 0
    /\ batch_remaining = 0
    /\ originals = {}
    /\ translation = NoResult
    /\ translated = Mark({}, "new")
    /\ requests = [b \in Batches |-> 0]
    /\ repairs = [b \in Batches |-> 0]
    /\ dispatched = [b \in Batches |-> 0]
    /\ auto_batched = 0
    /\ faults = 0
    /\ quota = {}
    /\ answer = NoResult
    /\ no_context = {}
    /\ fatal = {}
    /\ events = <<>>
    /\ subtitles = Before(has_lines)
    /\ max_retries = 0
    /\ retries = 0
    /\ waits = 0
    /\ response = "none"
    /\ reply = "none"
    /\ sent = 0
    /\ slept = <<>>
    /\ NoCall

\* A first translation, of subtitles not yet made into scenes: any combination
\* of the flags, no line budget.
Init == InitOf(SUBSET Flags, {0}, FALSE, Documents({"fresh"}))

\* A run that resumes or reparses what an earlier run left.
InitPrior ==
    InitOf(SUBSET {"resume", "reparse", "allow_retranslations"}, {0}, TRUE,
           Documents({"fresh", "partial", "full"}))

\* A preview, or none, of what an earlier run left.
InitPreview ==
    InitOf(SUBSET {"preview", "reparse", "allow_retranslations"}, {0}, TRUE,
           Documents({"fresh", "partial", "full"}))

\* A first run over subtitles with or without scenes, with or without lines.
InitStart ==
    \/ InitOf(SUBSET {"allow_retranslations", "stop_on_error"}, {0}, TRUE,
              Documents({"fresh"}))
    \/ InitOf(SUBSET {"allow_retranslations", "stop_on_error"}, {0}, FALSE,
              Documents({"fresh"}))

\* A run with a line budget.
InitBudget ==
    InitOf(SUBSET {"resume", "stop_on_error", "allow_retranslations",
                   "enforce_line_parity"}, 1..MaxLines, TRUE,
           Documents({"fresh", "partial", "full"}))

\* SubtitleTranslator.StopTranslating, from any thread, while the run goes on.
StopTranslating ==
    /\ pc # "Done"
    /\ UNCHANGED <<client, call>>
    /\ aborted' = TRUE
    /\ UNCHANGED <<options, max_lines, no_context, has_scenes, has_lines, batch, pc, outcome, scene,
                   todo, bidx, remaining_lines, batch_remaining, originals, translation,
                   translated, requests, repairs, dispatched, auto_batched, faults,
                   quota, answer, fatal, events, subtitles>>

\* AutoBatch of a TranslateSubtitles that batches whatever it is given.
AutoBatch_Always ==
    /\ has_scenes' = (has_scenes \/ has_lines)
    /\ auto_batched' = auto_batched + 1

\* TranslateSubtitles: subtitles without scenes are handed to AutoBatch, which
\* makes scenes of the lines there are.
AutoBatch ==
    /\ has_scenes' = (has_scenes \/ has_lines)
    /\ auto_batched' = IF has_scenes THEN auto_batched ELSE auto_batched + 1

\* TranslateSubtitles of a run that does not read self.aborted before it starts.
TranslateSubtitles_Unchecked ==
    /\ pc = "Start"
    /\ UNCHANGED <<client, call>>
    /\ AutoBatch
    /\ IF ~(has_scenes \/ has_lines)
       THEN Leave(Ended("Exception", 0, events))
       ELSE Leave([pc |-> "SceneLoop", outcome |-> "running", scene |-> 1,
                   todo |-> <<>>, bidx |-> 0, remaining_lines |-> max_lines,
                   batch_remaining |-> 0,
                   events |-> Append(events, <<"preprocessed">>)])
    /\ UNCHANGED <<options, max_lines, no_context, aborted, has_lines, batch, requests, repairs,
                   dispatched, faults, quota, answer, fatal>>
    /\ SetProjections

\* TranslateSubtitles up to its scene loop.
TranslateSubtitles ==
    /\ pc = "Start"
    /\ UNCHANGED <<client, call>>
    /\ IF aborted
       THEN /\ Leave(Ended("Aborted", 0, events))
            /\ UNCHANGED <<has_scenes, auto_batched>>
       ELSE /\ AutoBatch
            /\ IF ~(has_scenes \/ has_lines)
               THEN Leave(Ended("Exception", 0, events))
               ELSE Leave([pc |-> "SceneLoop", outcome |-> "running", scene |-> 1,
                           todo |-> <<>>, bidx |-> 0, remaining_lines |-> max_lines,
                           batch_remaining |-> 0,
                           events |-> Append(events, <<"preprocessed">>)])
    /\ UNCHANGED <<options, max_lines, no_context, aborted, has_lines, batch, requests, repairs,
                   dispatched, faults, quota, answer, fatal>>
    /\ SetProjections

\* TranslateSubtitles: the batch numbers handed to TranslateScene on resume.
ResumeBatchNumbers(s) == { n \in BatchNumbers(s) : ~BatchAnyTranslated(<<s, n>>) }

\* TranslateScene: `batches`, the batches handed to TranslateBatches.
SceneBatches(s) ==
    IF Opt("resume") /\ ResumeBatchNumbers(s) # {}
    THEN InOrder(ResumeBatchNumbers(s))
    ELSE InOrder(BatchNumbers(s))

\* TranslateSubtitles, the scene loop past its read of self.aborted: the scene
\* is skipped, or TranslateScene and TranslateBatches run up to the batch loop.
EnterScene ==
    IF Opt("resume") /\ SceneAllTranslated(scene)
    THEN Leave(NextScene(scene, remaining_lines, events))
    ELSE Leave([pc |-> "BatchLoop", outcome |-> "running", scene |-> scene,
                todo |-> SceneBatches(scene), bidx |-> 1,
                remaining_lines |-> remaining_lines,
                batch_remaining |-> remaining_lines, events |-> events])

\* SceneLoop of a scene loop that does not read self.aborted.
SceneLoop_Unchecked ==
    /\ pc = "SceneLoop"
    /\ UNCHANGED <<client, call>>
    /\ EnterScene
    /\ UNCHANGED <<options, max_lines, no_context, aborted, has_scenes, has_lines, batch, requests,
                   repairs, dispatched, auto_batched, faults, quota, answer, fatal>>
    /\ SetProjections

\* TranslateSubtitles: one turn of the scene loop.
SceneLoop ==
    /\ pc = "SceneLoop"
    /\ UNCHANGED <<client, call>>
    /\ IF aborted THEN Leave(Ended("Aborted", remaining_lines, events)) ELSE EnterScene
    /\ UNCHANGED <<options, max_lines, no_context, aborted, has_scenes, has_lines, batch, requests,
                   repairs, dispatched, auto_batched, faults, quota, answer, fatal>>
    /\ SetProjections

\* TranslateBatches from `if translation:` on, with the raw result r in hand for
\* batch b, which sent the lines orig: batch.translation is set, then
\* ProcessTranslation runs up to where it reads self.aborted ("Consider"), or
\* to its end and on to the next read of self.aborted.
Process(b, r, orig, isNew) ==
    IF r.kind # "Text"
    THEN /\ batch' = [batch EXCEPT ![b] = Store(@, isNew)]
         /\ Leave(BatchDone("Value", orig))
    ELSE IF FirstPass(b, r).raised # "none"
    THEN /\ batch' = [batch EXCEPT ![b] = [Store(@, isNew) EXCEPT !.errors = {}]]
         /\ Leave(BatchDone(ProcessTranslationExcept(FirstPass(b, r).raised), orig))
    ELSE IF ShouldRetry(FirstPass(b, r).errors)
    THEN /\ batch' = [batch EXCEPT ![b] =
                         [Store(@, isNew) EXCEPT !.errors = FirstPass(b, r).errors]]
         /\ pc' = "Consider"
         /\ originals' = orig
         /\ translation' = r
         /\ translated' = MatchTranslations(b, r.parsed).translated
         /\ UNCHANGED <<outcome, scene, todo, bidx, remaining_lines, batch_remaining,
                        events>>
    ELSE /\ batch' = [batch EXCEPT ![b] =
                         Commit([Store(@, isNew) EXCEPT !.errors = FirstPass(b, r).errors],
                                MatchTranslations(b, r.parsed).translated, r)]
         /\ Leave(BatchDone("none", orig))

\* An exception e raised in the try statement of TranslateBatches before the
\* batch is touched.
Fail(e) ==
    /\ Leave(BatchDone(e, originals))
    /\ Raise(e)
    /\ UNCHANGED batch

\* AlreadyTranslated of a batch loop without the skip.
AlreadyTranslated_Never(b) == FALSE

\* TranslateBatches: the batch is skipped on resume.
AlreadyTranslated(b) == Opt("resume") /\ BatchAllTranslated(b)

\* TranslateBatches: one turn of the batch loop, up to the client call, or, for
\* a batch that is skipped, previewed or reparsed, as far as that goes.
BatchLoop ==
    /\ pc = "BatchLoop"
    /\ UNCHANGED <<client, call>>
    /\ IF aborted
       THEN /\ Leave(SceneDone(scene, "Aborted", remaining_lines, events))
            /\ Raise("Aborted")
            /\ UNCHANGED <<batch, requests, dispatched, faults, quota, answer>>
       ELSE IF AlreadyTranslated(Current)
       THEN /\ Leave(NextBatch(batch_remaining, events))
            /\ UNCHANGED <<batch, requests, dispatched, faults, quota, answer, fatal>>
       ELSE IF Opt("reparse") /\ batch[Current].translation # "none"
       THEN /\ \E r \in StoredResults(Current) :
                  Hands(Current, r) /\ Process(Current, r, Truncate(Current), FALSE)
            /\ UNCHANGED <<requests, dispatched, fatal>>
       ELSE IF Opt("preview")
       THEN /\ Leave(NextBatch(batch_remaining,
                               Append(events, <<"batch_translated", Current>>)))
            /\ UNCHANGED <<batch, requests, dispatched, faults, quota, answer, fatal>>
       ELSE /\ pc' = "Request"
            /\ originals' = Truncate(Current)
            /\ requests' = Bump(requests, Current)
            /\ dispatched' = [dispatched EXCEPT ![Current] = Cardinality(Truncate(Current))]
            /\ UNCHANGED <<batch, outcome, scene, todo, bidx, remaining_lines,
                           batch_remaining, translation, translated, faults, quota, answer,
                           fatal, events>>
    /\ UNCHANGED <<options, max_lines, no_context, aborted, has_scenes, has_lines, repairs,
                   auto_batched>>
    /\ SetProjections

\* client.RequestTranslation returns or raises; TranslateBatches goes on.
Request ==
    /\ pc = "Request"
    /\ UNCHANGED <<client, call>>
    /\ \E r \in RequestResults(Current) :
          /\ Hands(Current, r)
          /\ IF Raised(r) # "none"
             THEN Fail(Raised(r)) /\ UNCHANGED <<requests, no_context>>
             ELSE IF aborted
             THEN Fail("Aborted") /\ UNCHANGED <<requests, no_context>>
             ELSE IF r.kind = "Quota"
             THEN Fail("Impossible") /\ UNCHANGED <<requests, no_context>>
             ELSE IF r.kind = "TokenLimit"
             THEN /\ pc' = "Retry"
                  /\ requests' = Bump(requests, Current)
                  /\ no_context' = no_context \cup {Current}
                  /\ UNCHANGED <<batch, outcome, scene, todo, bidx, remaining_lines,
                                 batch_remaining, originals, translation, translated,
                                 fatal, events>>
             ELSE Process(Current, r, originals, TRUE)
                  /\ UNCHANGED <<requests, fatal, no_context>>
    /\ UNCHANGED <<options, max_lines, aborted, has_scenes, has_lines, repairs,
                   dispatched, auto_batched>>
    /\ SetProjections

\* Retry of a TranslateBatches that requests again for as long as the token
\* limit is met.
Retry_Again ==
    /\ pc = "Retry"
    /\ UNCHANGED <<client, call>>
    /\ \E r \in RequestResults(Current) :
          /\ Hands(Current, r)
          /\ IF Raised(r) # "none" THEN Fail(Raised(r)) /\ UNCHANGED requests
             ELSE IF r.kind = "TokenLimit"
             THEN /\ requests' = Bump(requests, Current)
                  /\ UNCHANGED <<batch, pc, outcome, scene, todo, bidx, remaining_lines,
                                 batch_remaining, originals, translation, translated,
                                 fatal, events>>
             ELSE Process(Current, r, originals, TRUE) /\ UNCHANGED <<requests, fatal>>
    /\ UNCHANGED <<options, max_lines, no_context, aborted, has_scenes, has_lines, repairs,
                   dispatched, auto_batched>>
    /\ SetProjections

\* The request without context, after a token limit, returns or raises. Its
\* result is not asked for quota_reached.
Retry ==
    /\ pc = "Retry"
    /\ UNCHANGED <<client, call>>
    /\ \E r \in RequestResults(Current) :
          /\ Hands(Current, r)
          /\ IF Raised(r) # "none" THEN Fail(Raised(r))
             ELSE IF r.kind = "TokenLimit" THEN Fail("Error")
             ELSE Process(Current, r, originals, TRUE) /\ UNCHANGED fatal
    /\ UNCHANGED <<options, max_lines, no_context, aborted, has_scenes, has_lines, requests,
                   repairs, dispatched, auto_batched>>
    /\ SetProjections

\* ProcessTranslation reads self.aborted: a repair round, or none.
Consider ==
    /\ pc = "Consider"
    /\ UNCHANGED <<client, call>>
    /\ IF ~aborted
       THEN /\ pc' = "Repair"
            /\ repairs' = Bump(repairs, Current)
            /\ UNCHANGED <<batch, outcome, scene, todo, bidx, remaining_lines,
                           batch_remaining, originals, translation, translated, events>>
       ELSE /\ batch' = [batch EXCEPT ![Current] = Commit(@, translated, translation)]
            /\ Leave(BatchDone("none", originals))
            /\ UNCHANGED repairs
    /\ UNCHANGED <<options, max_lines, no_context, aborted, has_scenes, has_lines, requests,
                   dispatched, auto_batched, faults, quota, answer, fatal>>
    /\ SetProjections

\* RequestRetranslations: the exception it raises on the client's answer rr.
RepairError(rr) ==
    IF Raised(rr) # "none" THEN Raised(rr)
    ELSE IF rr.kind = "NotTranslation" THEN "Error" ELSE "none"

\* client.RequestRetranslation returns or raises; RequestRetranslations and
\* ProcessTranslation go on to the end.
Repair ==
    /\ pc = "Repair"
    /\ UNCHANGED <<client, call>>
    /\ \E rr \in RetranslationResults(Current) :
          /\ Hands(Current, rr)
          /\ Raise(RepairError(rr))
          /\ IF RepairError(rr) # "none"
             THEN /\ Leave(BatchDone(ProcessTranslationExcept(RepairError(rr)), originals))
                  /\ UNCHANGED batch
             ELSE /\ batch' = [batch EXCEPT ![Current] =
                       Commit([@ EXCEPT !.errors =
                                 RequestRetranslations(Current, rr, batch[Current].errors).errors],
                              MergeTranslations(translated,
                                 RequestRetranslations(Current, rr, batch[Current].errors).retranslated),
                              translation)]
                  /\ Leave(BatchDone("none", originals))
    /\ UNCHANGED <<options, max_lines, no_context, aborted, has_scenes, has_lines, requests,
                   repairs, dispatched, auto_batched>>
    /\ SetProjections

Next ==
    \/ StopTranslating
    \/ TranslateSubtitles
    \/ SceneLoop
    \/ BatchLoop
    \/ Request
    \/ Retry
    \/ Consider
    \/ Repair

Spec == Init /\ [][Next]_vars

SpecPrior == InitPrior /\ [][Next]_vars

SpecPreview == InitPreview /\ [][Next]_vars

SpecBudget == InitBudget /\ [][Next]_vars

SpecStart == InitStart /\ [][Next]_vars

\* The caller, after StopTranslating and after TranslateSubtitles has returned
\* or raised, calls it once more on the same translator: nothing of the
\* translator or of the document is made anew.
CallAgain ==
    /\ pc = "Done"
    /\ aborted
    /\ pc' = "Start"
    /\ outcome' = "running"
    /\ UNCHANGED <<client, call>>
    /\ UNCHANGED <<options, max_lines, no_context, aborted, has_scenes, has_lines, batch,
                   scene, todo, bidx, remaining_lines, batch_remaining, originals,
                   translation, translated, requests, repairs, dispatched, auto_batched,
                   faults, quota, answer, fatal, events, subtitles>>

\* A translator of unbatched subtitles that is used for more than one call.
InitAgain == InitOf(SUBSET {"allow_retranslations"}, {0}, FALSE, Documents({"fresh"}))

NextAgain == Next \/ CallAgain

SpecAgain == InitAgain /\ [][NextAgain]_vars

\* ------------------------------------ InstructGPTClient._send_messages
\* What client.completions.create does: a response with a choice whose text is
\* a string, with a choice whose text is none, without choices; a rate limit
\* with or without a retry-after header; a connection error, a timeout; any
\* other exception.
Responses == {"Text", "NotString", "NoChoices"}

ApiResults ==
    Responses \cup {"RateLimitRetryAfter", "RateLimitQuota", "Connection", "Timeout", "Other"}

\* The try block of _send_messages on response r: the exception raised in it,
\* "none" when it reaches `return translation`.
TryBlock(r) ==
    IF aborted THEN "Aborted" ELSE IF r = "Text" THEN "none" ELSE "NoTranslation"

\* `except Exception` of _send_messages, for an exception e raised in the try
\* block that is none of openai's: how the call ends.
ExceptException(e) == IF e = "none" THEN "translation" ELSE "Impossible"

\* isinstance(e, openai.APIConnectionError): openai.APITimeoutError is a
\* subclass of openai.APIConnectionError.
IsConnectionError(r) == r \in {"Connection", "Timeout"}

\* The handler of APIConnectionError and APITimeoutError: how the call ends,
\* "none" when it sleeps and tries again.
ExceptConnection(r) ==
    IF aborted THEN "Aborted"
    ELSE IF IsConnectionError(r) THEN "Impossible"
    ELSE IF retries = max_retries THEN "APITimeoutError"
    ELSE "none"

\* A call of _send_messages begins, with any setting of max_retries.
InitClient ==
    /\ options = {}
    /\ max_lines = 0
    /\ aborted = FALSE
    /\ has_scenes = TRUE
    /\ has_lines = TRUE
    /\ batch \in Documents({"fresh"})
    /\ pc = "Send"
    /\ outcome = "running"
    /\ scene = 0
    /\ todo = <<>>
    /\ bidx = 0
    /\ remaining_lines = 0
    /\ batch_remaining = 0
    /\ originals = {}
    /\ translation = NoResult
    /\ translated = Mark({}, "new")
    /\ requests = [b \in Batches |-> 0]
    /\ repairs = [b \in Batches |-> 0]
    /\ dispatched = [b \in Batches |-> 0]
    /\ auto_batched = 0
    /\ faults = 0
    /\ quota = {}
    /\ answer = NoResult
    /\ no_context = {}
    /\ fatal = {}
    /\ events = <<>>
    /\ subtitles = Before(has_lines)
    /\ max_retries \in 0..MaxRetries
    /\ retries = 0
    /\ waits = 0
    /\ response = "none"
    /\ reply = "none"
    /\ sent = 0
    /\ slept = <<>>
    /\ NoCall

\* The loop condition of _send_messages, and `return None` after the loop.
SendMessages ==
    /\ pc = "Send"
    /\ IF retries <= max_retries /\ ~aborted
       THEN pc' = "Create" /\ sent' = sent + 1 /\ UNCHANGED reply
       ELSE pc' = "Done" /\ reply' = "None" /\ UNCHANGED sent
    /\ UNCHANGED <<translator, call, aborted, max_retries, retries, waits, response, slept>>

\* client.completions.create returns or raises, and _send_messages goes on to
\* its end or to the next turn of its loop.
Create ==
    /\ pc = "Create"
    /\ \E r \in ApiResults :
          /\ response' = r
          /\ IF r \in Responses
             THEN /\ pc' = "Done" /\ reply' = ExceptException(TryBlock(r))
                  /\ UNCHANGED <<retries, waits, slept>>
             ELSE IF r = "RateLimitRetryAfter"
             THEN /\ waits < MaxWaits
                  /\ pc' = "Send" /\ waits' = waits + 1
                  /\ slept' = Append(slept, [why |-> "retry_after", factor |-> 0])
                  /\ UNCHANGED <<retries, reply>>
             ELSE IF r = "RateLimitQuota"
             THEN /\ pc' = "Done" /\ reply' = "RateLimitError"
                  /\ UNCHANGED <<retries, waits, slept>>
             ELSE IF r = "Other"
             THEN /\ pc' = "Done" /\ reply' = "Impossible"
                  /\ UNCHANGED <<retries, waits, slept>>
             ELSE IF ExceptConnection(r) # "none"
             THEN /\ pc' = "Done" /\ reply' = ExceptConnection(r)
                  /\ UNCHANGED <<retries, waits, slept>>
             ELSE /\ pc' = "Send" /\ retries' = retries + 1
                  /\ slept' = Append(slept, [why |-> "backoff", factor |-> 2 ^ (retries + 1)])
                  /\ UNCHANGED <<waits, reply>>
    /\ UNCHANGED <<translator, call, aborted, max_retries, sent>>

NextClient ==
    \/ StopTranslating
    \/ SendMessages
    \/ Create

SpecClient == InitClient /\ [][NextClient]_vars

\* ------------------------------------ SubtitleTranslator.SanitiseSummary
\* A summary is a string of pieces: a label in either case, a digit, a blank, a
\* colon, a template phrase, and a word that holds none of these.
Tokens == {"Scene", "batch", "4", " ", ":", "w", "Summary of the batch"}

Texts == UNION { [1..k -> Tokens] : k \in 0..MaxLen }

None == [none |-> TRUE, text |-> <<>>]

Str(t) == [none |-> FALSE, text |-> t]

\* (?:Scene|Batch) under re.IGNORECASE, and [\s\d:\-].
Labels == {"Scene", "batch"}

Noise == {"4", " ", ":"}

\* The longest match of a starred character class at the head of t, removed.
RECURSIVE DropWhile(_, _)
DropWhile(t, S) == IF t # <<>> /\ Head(t) \in S THEN DropWhile(Tail(t), S) ELSE t

\* The same at the end of t.
RECURSIVE DropLastWhile(_, _)
DropLastWhile(t, S) ==
    IF t # <<>> /\ t[Len(t)] \in S THEN DropLastWhile(SubSeq(t, 1, Len(t) - 1), S) ELSE t

RECURSIVE StripLabels_CaseSensitive(_)
RECURSIVE StripLabels(_)

\* StripLabels of a pattern without re.IGNORECASE.
StripLabels_CaseSensitive(t) ==
    IF t # <<>> /\ Head(t) = "Scene"
    THEN StripLabels_CaseSensitive(DropWhile(Tail(t), Noise))
    ELSE t

\* re.sub(r'^(?:(?:Scene|Batch)[\s\d:\-]*)+', '', summary, flags=re.IGNORECASE)
StripLabels(t) ==
    IF t # <<>> /\ Head(t) \in Labels THEN StripLabels(DropWhile(Tail(t), Noise)) ELSE t

\* summary.replace(phrase, "")
Replace(t, phrase) == SelectSeq(t, LAMBDA x : x # phrase)

\* re.sub(r'^' + re.escape(movie_name) + r'\s*[:\-]\s*', '', summary), when
\* movie_name is set.
StripMovie(t, m) ==
    IF /\ m # ""
       /\ t # <<>> /\ Head(t) = m
       /\ DropWhile(Tail(t), {" "}) # <<>> /\ Head(DropWhile(Tail(t), {" "})) = ":"
    THEN DropWhile(Tail(DropWhile(Tail(t), {" "})), {" "})
    ELSE t

\* str.strip()
Strip(t) == DropLastWhile(DropWhile(t, {" "}), {" "})

\* SanitiseSummary from its first re.sub on.
Sanitised(t, m) ==
    Strip(StripMovie(Replace(Replace(StripLabels(t), "Summary of the batch"),
                             "Summary of the scene"), m))

SanitiseSummary(a) ==
    IF a.summary.none \/ a.summary.text = <<>> THEN None
    ELSE IF Sanitised(a.summary.text, a.movie_name) # <<>>
         THEN Str(Sanitised(a.summary.text, a.movie_name))
         ELSE None

\* The variables of the run and of the client while a function is applied.
AtRest ==
    /\ options = {}
    /\ max_lines = 0
    /\ aborted = FALSE
    /\ has_scenes = TRUE
    /\ has_lines = TRUE
    /\ batch \in Documents({"fresh"})
    /\ outcome = "running"
    /\ scene = 0
    /\ todo = <<>>
    /\ bidx = 0
    /\ remaining_lines = 0
    /\ batch_remaining = 0
    /\ originals = {}
    /\ translation = NoResult
    /\ translated = Mark({}, "new")
    /\ requests = [b \in Batches |-> 0]
    /\ repairs = [b \in Batches |-> 0]
    /\ dispatched = [b \in Batches |-> 0]
    /\ auto_batched = 0
    /\ faults = 0
    /\ quota = {}
    /\ answer = NoResult
    /\ no_context = {}
    /\ fatal = {}
    /\ events = <<>>
    /\ subtitles = Before(has_lines)
    /\ max_retries = 0
    /\ retries = 0
    /\ waits = 0
    /\ response = "none"
    /\ reply = "none"
    /\ sent = 0
    /\ slept = <<>>

\* SanitiseSummary is called with any summary, or none, the option movie_name
\* unset or set to the word.
InitSanitise ==
    /\ AtRest
    /\ pc = "Sanitise"
    /\ arg \in [summary : {None} \cup { Str(t) : t \in Texts }, movie_name : {"", "w"}]
    /\ result = "none"

Sanitise ==
    /\ pc = "Sanitise"
    /\ pc' = "Sanitised"
    /\ result' = SanitiseSummary(arg)
    /\ UNCHANGED <<translator, client, aborted, arg>>

NextSanitise == Sanitise

SpecSanitise == InitSanitise /\ [][NextSanitise]_vars

\* ---------------------------------------- the context handed to a request
\* The keys of a context that the translator does not assign itself.
KeyNames == <<"synopsis", "names", "characters", "instructions">>

Keys == { KeyNames[i] : i \in 1..NumKeys }

\* The contexts that hold, for some of the keys, the value stored at `origin`.
Contexts(origin) == UNION { [K -> {origin}] : K \in SUBSET Keys }

\* {**a, **b}
Merge(a, b) ==
    [k \in DOMAIN a \cup DOMAIN b |-> IF k \in DOMAIN b THEN b[k] ELSE a[k]]

\* TranslateScene: scene.context, from the scene's stored context and
\* self.context, the context of the document.
SceneContext(scene_context, self_context) ==
    IF DOMAIN scene_context = {} THEN self_context ELSE Merge(scene_context, self_context)

\* TranslateBatches: `context`, with the batch's stored context restored under
\* retranslate or reparse.
BatchContext(context, batch_context, restore) ==
    IF DOMAIN batch_context # {} /\ restore THEN Merge(context, batch_context) ELSE context

\* The context of the request for the first batch of a scene, for the keys.
RequestContext(a) == BatchContext(SceneContext(a.scene, a.document), a.batch, a.restore)

\* Any stored contexts of a document, a scene and a batch; retranslate or
\* reparse set, or neither.
InitContext ==
    /\ AtRest
    /\ pc = "Context"
    /\ arg \in [document : Contexts("document"), scene : Contexts("scene"),
                batch : Contexts("batch"), restore : BOOLEAN]
    /\ result = "none"

BuildContext ==
    /\ pc = "Context"
    /\ pc' = "ContextBuilt"
    /\ result' = RequestContext(arg)
    /\ UNCHANGED <<translator, client, aborted, arg>>

NextContext == BuildContext

SpecContext == InitContext /\ [][NextContext]_vars

\* ----------------------- ProcessTranslation: "update the context" (336-345)
\* `a or b` for two values that are a string or None.
Or(a, b) == IF a.none \/ a.text = <<>> THEN b ELSE a

\* What a result carries as summary, scene or synopsis: nothing, the empty
\* string, a text, a text behind a label.
NewValues == {None, Str(<<>>), Str(<<"w">>), Str(<<"Scene", "4", ":", "w">>)}

\* What the batch and the rolling context hold before: nothing, or an older text.
OldValues == {None, Str(<<"w", " ", "w">>)}

\* UpdateContext of a ProcessTranslation that updates also when retranslating.
UpdateContext_Always(a) ==
    [batch_summary |-> SanitiseSummary([summary |-> Or(a.translation.summary, a.batch_summary),
                                        movie_name |-> ""]),
     context |->
        [summary |-> SanitiseSummary([summary |-> Or(a.translation.summary, a.batch_summary),
                                      movie_name |-> ""]),
         scene |-> Or(SanitiseSummary([summary |-> a.translation.scene, movie_name |-> ""]),
                      a.context.scene),
         synopsis |-> Or(a.translation.synopsis, Or(a.context.synopsis, Str(<<>>)))]]

\* batch.summary and context['summary'], ['scene'], ['synopsis'] after the
\* block; a key that context lacks is None here.
UpdateContext(a) ==
    IF a.retranslate
    THEN [batch_summary |-> a.batch_summary, context |-> a.context]
    ELSE [batch_summary |->
             SanitiseSummary([summary |-> Or(a.translation.summary, a.batch_summary),
                              movie_name |-> ""]),
          context |->
             [summary |->
                 SanitiseSummary([summary |-> Or(a.translation.summary, a.batch_summary),
                                  movie_name |-> ""]),
              scene |-> Or(SanitiseSummary([summary |-> a.translation.scene,
                                            movie_name |-> ""]), a.context.scene),
              synopsis |-> Or(a.translation.synopsis, Or(a.context.synopsis, Str(<<>>)))]]

\* ProcessTranslation has assigned the translated lines of any result, for a
\* batch and a context that hold older values or none.
InitUpdate ==
    /\ AtRest
    /\ pc = "Update"
    /\ arg \in [retranslate : BOOLEAN,
                translation : [summary : NewValues, scene : NewValues, synopsis : NewValues],
                batch_summary : OldValues,
                context : [summary : OldValues, scene : OldValues, synopsis : OldValues]]
    /\ result = "none"

Update ==
    /\ pc = "Update"
    /\ pc' = "Updated"
    /\ result' = UpdateContext(arg)
    /\ UNCHANGED <<translator, client, aborted, arg>>

NextUpdate == Update

SpecUpdate == InitUpdate /\ [][NextUpdate]_vars

\* ------------------------------------------------------------ properties
\* The lines handed to client.RequestTranslation for the first i batches. The
\* request repeated after a token limit sends the same lines again: they count once.
DispatchedUpTo[i \in 0..(NumScenes + 1)] ==
    IF i = 0 THEN 0 ELSE dispatched[BatchAt(i)] + DispatchedUpTo[i - 1]

TotalDispatched == DispatchedUpTo[NumScenes + 1]

\* The run is inside TranslateBatches, with a batch in hand.
InBatch == pc \in {"Request", "Retry", "Consider", "Repair"}

Failure == outcome \notin {"ok", "running"}

\* C1: once a request was answered with quota_reached, TranslateSubtitles has
\* ended with an error, whatever stop_on_error is, and no batch after that one,
\* of its scene or of a later scene, has been sent to the client.
C1_QuotaEndsRun ==
    \A b \in quota :
        /\ pc = "Done" /\ Failure
        /\ \A c \in Batches : BatchIndex(c) > BatchIndex(b) => requests[c] = 0

\* C2: with resume set, no step sends a batch all of whose lines are translated
\* to RequestTranslation or RequestRetranslation, whatever state the other
\* batches of its scene are in.
C2_ResumeNeverResends ==
    [][Opt("resume") =>
          \A b \in Batches :
              Lines(b) \subseteq DOMAIN batch[b].translated =>
                  /\ requests'[b] = requests[b]
                  /\ repairs'[b] = repairs[b]
                  /\ dispatched'[b] = dispatched[b]]_vars

\* The fully translated first batch was handed to TranslateBatches with its
\* partly translated sibling, and only the sibling is sent.
C2_Witness ==
    /\ Opt("resume")
    /\ pc = "Request" /\ scene = 1 /\ todo = <<1, 2>> /\ bidx = 2
    /\ batch[<<1, 1>>] = Prior(<<1, 1>>, "full")
    /\ requests[<<1, 1>>] = 0 /\ repairs[<<1, 1>>] = 0

C4_OneRepair ==
    [][/\ \A b \in Batches : repairs'[b] <= 1
       /\ \A b \in Batches :
              repairs'[b] # repairs[b] =>
                  /\ pc = "Consider" /\ b = Current
                  /\ batch[b].errors # {} /\ Opt("allow_retranslations") /\ ~aborted
       /\ (pc \in {"Request", "Retry"} /\ batch'[Current].errors # {}) =>
              pc' = "Consider" /\ Opt("allow_retranslations")
       /\ (pc = "Consider" /\ pc' # "Consider") =>
              repairs'[Current] = IF aborted THEN 0 ELSE 1]_vars

\* A batch was repaired once, the repaired result still left lines unmatched,
\* and the run went on to its end without a second repair.
C4_Witness ==
    /\ pc = "Done" /\ outcome = "ok"
    /\ \E b \in Batches :
          /\ repairs[b] = 1
          /\ batch[b].errors = {"Untranslated"}
          /\ \E l \in DOMAIN batch[b].translated : batch[b].translated[l] = "rep"

\* C5: after a run that returns normally, every line number in a batch's
\* translated lines is the number of one of the batch's original lines, lines
\* merged in from a repair round included.
C5_NoForeignLines ==
    (pc = "Done" /\ outcome = "ok") =>
        \A b \in Batches : Numbers(batch[b].translated) \subseteq Lines(b)

\* C6: when the scene loop finds the cancellation flag set before a scene, the
\* run ends with TranslationAbortedError and no batch is changed or sent in that
\* step; after the run has ended nothing changes any more.
C6_CancelBetweenScenes ==
    [][/\ (pc = "SceneLoop" /\ aborted) =>
              /\ pc' = "Done" /\ outcome' = "Aborted"
              /\ batch' = batch
              /\ requests' = requests /\ repairs' = repairs /\ dispatched' = dispatched
       /\ pc = "Done" =>
              UNCHANGED <<batch, requests, repairs, dispatched, outcome, pc>>]_vars

\* Scene 1 was translated in full, the flag was found set at the head of the
\* scene loop, and no later scene was sent or changed.
C6_Witness ==
    /\ pc = "Done" /\ outcome = "Aborted" /\ fatal = {}
    /\ \E i \in 1..Len(events) : events[i][1] = "scene_translated" /\ events[i][2] = 1
    /\ \A n \in BatchNumbers(1) : Numbers(batch[<<1, n>>].translated) = Lines(<<1, n>>)
    /\ \A b \in Batches :
          b[1] > 1 => requests[b] = 0 /\ repairs[b] = 0 /\ batch[b] = Prior(b, "fresh")

\* C7: once Aborted or Impossible was raised below TranslateSubtitles, by a
\* request, by a repair request or by the code between them, the run has ended
\* with an error, whatever stop_on_error is.
C7_FatalNeverSwallowed == fatal # {} => pc = "Done" /\ Failure

\* C8: the step in which a request for a batch is answered with quota_reached
\* leaves the batch as it was: translated lines, stored raw translation, errors
\* and summary.
C8_QuotaLeavesBatch ==
    [][\A b \in Batches : (b \in quota' /\ b \notin quota) => batch'[b] = batch[b]]_vars

\* C9: with preview set, no step makes a request or a repair request or changes
\* a batch's translated lines.
C9_PreviewNoRequest ==
    [][Opt("preview") =>
          /\ requests' = requests
          /\ repairs' = repairs
          /\ \A b \in Batches : batch'[b].translated = batch[b].translated]_vars

\* C10: with reparse set, no step makes a request or a repair request for a batch
\* that holds the raw translation an earlier run stored.
C10_ReparseNoRequest ==
    [][Opt("reparse") =>
          \A b \in Batches :
              batch[b].translation = "old" =>
                  requests'[b] = requests[b] /\ repairs'[b] = repairs[b]]_vars

\* The step in which the client call made at `at` comes back.
Back(at) == pc = at /\ pc' # at

\* The step goes on to the next batch of the scene, when there is one and the
\* line budget, if any, is not used up by the batch in hand.
GoesOn ==
    /\ outcome' \in {"running", "ok"}
    /\ (bidx < Len(todo) /\ (batch_remaining = 0 \/ batch_remaining > Cardinality(originals))) =>
           pc' = "BatchLoop" /\ scene' = scene /\ todo' = todo /\ bidx' = bidx + 1

\* C11: a first result with reached_token_limit makes the run request the same
\* lines once more, with context None, unless the run is cancelled; a second
\* result with reached_token_limit fails the batch with a TranslationError that
\* ends the run only under stop_on_error; no batch is requested more than twice.
C11_TokenLimitRetry ==
    [][/\ \A b \in Batches : requests'[b] <= 2
       /\ (Back("Request") /\ ~aborted /\ answer'.kind = "TokenLimit") =>
              /\ pc' = "Retry"
              /\ requests'[Current] = 2 /\ Current \in no_context'
              /\ originals' = originals /\ batch' = batch
       /\ (Back("Retry") /\ answer'.kind = "TokenLimit") =>
              /\ batch' = batch /\ requests' = requests
              /\ IF Opt("stop_on_error")
                 THEN pc' = "Done" /\ outcome' = "Failed"
                 ELSE GoesOn]_vars

\* The first batch of a scene met the token limit twice and the run, without
\* stop_on_error, is at the scene's second batch.
C11_Witness ==
    /\ ~Opt("stop_on_error")
    /\ pc = "BatchLoop" /\ bidx = 2
    /\ requests[<<scene, todo[1]>>] = 2 /\ <<scene, todo[1]>> \in no_context
    /\ answer.kind = "TokenLimit"

\* The step raises a TranslationError other than Aborted and Impossible for the
\* batch in hand: a request or repair request that failed, the token limit met
\* again, a repair result of the wrong type, or, without allow_retranslations,
\* a result that fails matching or validation.
RecoverableError ==
    /\ pc' # pc
    /\ \/ pc \in {"Request", "Retry", "Repair"} /\ answer'.kind = "RaiseFailed"
       \/ pc = "Retry" /\ answer'.kind = "TokenLimit"
       \/ pc = "Repair" /\ answer'.kind = "NotTranslation"
       \/ /\ pc \in {"Request", "Retry"} /\ ~(pc = "Request" /\ aborted)
          /\ answer'.kind = "Text" /\ ~Opt("allow_retranslations")
          /\ \/ ~answer'.valid
             \/ Opt("enforce_line_parity") /\ ~(Lines(Current) \subseteq answer'.parsed)

\* C12, as stated: a recoverable TranslationError raised for a batch ends the
\* run with an error under stop_on_error; without it the run goes on, the rest
\* of the scene is abandoned and no further request is made for that scene.
C12_SceneAbandoned ==
    [][RecoverableError =>
          IF Opt("stop_on_error")
          THEN pc' = "Done" /\ outcome' = "Failed"
          ELSE outcome' \in {"running", "ok"} /\ scene' # scene]_vars

\* C12, amended: a recoverable TranslationError raised for a batch ends the run
\* with TranslationFailedError under stop_on_error; without it only that batch
\* is given up, and the batch loop goes on with the next batch of the same
\* scene as after any other batch.
C12_BatchSkipped ==
    [][RecoverableError =>
          IF Opt("stop_on_error") THEN pc' = "Done" /\ outcome' = "Failed" ELSE GoesOn]_vars

\* The request for the first batch of scene 1 failed and, without stop_on_error,
\* the second batch of the scene has been sent.
C12_Witness ==
    /\ ~Opt("stop_on_error")
    /\ pc = "Request" /\ scene = 1 /\ bidx = 2
    /\ answer.kind = "RaiseFailed"
    /\ requests[<<1, 1>>] = 1 /\ requests[<<1, 2>>] = 1

\* The step hands ProcessTranslation a result with text for the batch in hand,
\* newly received from the client.
NewText ==
    /\ pc' # pc
    /\ pc \in {"Request", "Retry"} /\ ~(pc = "Request" /\ aborted)
    /\ answer'.kind = "Text"

\* C13: when the result of a batch fails matching or validation, no repair is
\* allowed and stop_on_error is unset, the lines that did match are committed
\* to batch.translated and the run continues.
C13_MatchedLinesKept ==
    [][(/\ NewText
        /\ ~Opt("allow_retranslations") /\ ~Opt("stop_on_error")
        /\ FirstPassError(Current, answer') # "none") =>
           /\ Numbers(batch'[Current].translated) = answer'.parsed \cap Lines(Current)
           /\ GoesOn]_vars

\* C14: with enforce_line_parity and allow_retranslations unset, a result that
\* passes validation and matches only some of the batch's lines is committed:
\* batch.translated holds exactly the matched lines, the other lines of the
\* batch are its untranslated lines, no repair is asked for, and the run goes
\* on with the next batch or scene without an error.
C14_PartialMatchTolerated ==
    [][(/\ NewText
        /\ ~Opt("enforce_line_parity") /\ ~Opt("allow_retranslations")
        /\ answer'.valid
        /\ answer'.parsed \cap Lines(Current) # {}
        /\ ~(Lines(Current) \subseteq answer'.parsed)) =>
           /\ Numbers(batch'[Current].translated) = answer'.parsed \cap Lines(Current)
           /\ Lines(Current) \ Numbers(batch'[Current].translated) = Lines(Current) \ answer'.parsed
           /\ repairs' = repairs /\ pc' \notin {"Consider", "Repair"}
           /\ GoesOn
           /\ pc' \in {"BatchLoop", "SceneLoop", "Done"}]_vars

\* The run has returned normally with the first line of scene 1's first batch
\* translated, its other lines untranslated, and every other batch translated
\* in full, without a repair request.
C14_Witness ==
    /\ ~Opt("enforce_line_parity") /\ ~Opt("allow_retranslations")
    /\ pc = "Done" /\ outcome = "ok"
    /\ Numbers(batch[<<1, 1>>].translated) = FirstLines(<<1, 1>>, 1)
    /\ Untranslated = Lines(<<1, 1>>) \ FirstLines(<<1, 1>>, 1)
    /\ \A b \in Batches : repairs[b] = 0 /\ requests[b] = 1

\* The scenes of the scene_translated notifications, in the order sent.
ScenesNotified ==
    [i \in 1..Len(SelectSeq(events, LAMBDA e : e[1] = "scene_translated")) |->
        SelectSeq(events, LAMBDA e : e[1] = "scene_translated")[i][2]]

\* C15: when the client answers every request with a valid result for every
\* line of the batch, a run that is not cancelled and is no preview returns
\* normally with every line of the document translated, none untranslated, and
\* one scene_translated notification for each scene, in scene order.
C15_AllTranslated ==
    (pc = "Done" /\ faults = 0 /\ ~aborted /\ has_scenes /\ ~Opt("preview")) =>
        /\ outcome = "ok"
        /\ Translations = 1..NumLines
        /\ Untranslated = {}
        /\ ScenesNotified = [i \in 1..NumScenes |-> i]

\* Such a run has ended, after one request for each batch.
C15_Witness ==
    /\ pc = "Done" /\ faults = 0 /\ ~aborted /\ ~Opt("preview")
    /\ \A b \in Batches : requests[b] = 1 /\ Numbers(batch[b].translated) = Lines(b)
    /\ Len(events) = 1 + Cardinality(Batches) + NumScenes

\* C16: a result without translated text leaves batch.translated as it was and,
\* with stop_on_error unset, the run goes on with the next batch of the same
\* scene.
C16_EmptyResultSkipsBatch ==
    [][(/\ pc' # pc
        /\ pc \in {"Request", "Retry"} /\ ~(pc = "Request" /\ aborted)
        /\ answer'.kind = "Empty"
        /\ ~Opt("stop_on_error")) =>
           /\ batch'[Current].translated = batch[Current].translated
           /\ GoesOn]_vars

\* C17: TranslateSubtitles, when it is not cancelled before it starts, hands
\* subtitles without scenes to AutoBatch exactly once and subtitles with scenes
\* never; when there are still no scenes it ends with the "No scenes to
\* translate" exception, before the preprocessed notification and before any
\* request.
C17_AutoBatchOnce ==
    [][/\ (pc = "Start" /\ pc' # "Start" /\ ~aborted) =>
             /\ auto_batched' = IF has_scenes THEN 0 ELSE 1
             /\ IF has_scenes'
                THEN pc' = "SceneLoop" /\ events' = <<<<"preprocessed">>>>
                ELSE /\ pc' = "Done" /\ outcome' = "Exception"
                     /\ events' = <<>>
                     /\ \A b \in Batches : requests'[b] = 0
       /\ pc # "Start" => auto_batched' = auto_batched]_vars

\* Subtitles without scenes and without lines: AutoBatch ran once and the run
\* ended with the exception, nothing notified.
C17_Witness ==
    /\ pc = "Done" /\ outcome = "Exception"
    /\ ~has_scenes /\ auto_batched = 1
    /\ events = <<>>

\* The number of notifications of the kind for x among the events ev.
Notified(ev, kind, x) ==
    Cardinality({ i \in 1..Len(ev) : ev[i][1] = kind /\ ev[i][2] = x })

\* C18: a batch whose result has been processed and merged is notified as
\* batch_translated exactly once, and the scene whose batch loop ends with it as
\* scene_translated exactly once, also when the batch uses up the line budget.
C18_NotifiedOnce ==
    [][(NewText /\ FirstPassError(Current, answer') = "none") =>
           /\ Notified(events', "batch_translated", Current) = 1
           /\ scene' # scene => Notified(events', "scene_translated", scene) = 1]_vars

\* C19: when a client call (the first request, the request repeated without
\* context, the repair request) returns and the run has been cancelled, the run
\* ends with Aborted and the batch is left as it was.
C19_PolledAfterEveryCall ==
    [][((Back("Request") \/ Back("Retry") \/ Back("Repair"))
            /\ aborted /\ Raised(answer') = "none") =>
           /\ pc' = "Done" /\ outcome' = "Aborted"
           /\ batch' = batch]_vars

\* C20: whenever _send_messages finds the abort flag set, at the head of its
\* loop, after a response has come back, or after a connection error or a
\* timeout, it ends by raising TranslationAbortedError.
C20_AbortRaisesAborted ==
    [][(/\ aborted /\ pc' # pc
        /\ \/ pc = "Send"
           \/ pc = "Create" /\ response' \in Responses \cup {"Connection", "Timeout"}) =>
           pc' = "Done" /\ reply' = "Aborted"]_vars

\* C21: _send_messages never ends by raising one of the transport library's own
\* exceptions: a failure that leaves it is Aborted, Impossible or Failed.
C21_NoRawTransportError ==
    reply \notin {"RateLimitError", "APITimeoutError"}

\* The places of t that hold no blank.
NonBlank(t) == { i \in 1..Len(t) : t[i] # " " }

\* t without the blanks at its ends; None when nothing is left.
Trimmed(t) ==
    IF NonBlank(t) = {} THEN None
    ELSE Str(SubSeq(t, CHOOSE i \in NonBlank(t) : \A j \in NonBlank(t) : i <= j,
                       CHOOSE i \in NonBlank(t) : \A j \in NonBlank(t) : i >= j))

\* The length of the leading run of t: a label, and every label, digit, blank
\* and colon that follows without a break.
LeadingRun(t) ==
    IF t = <<>> \/ t[1] \notin Labels THEN 0
    ELSE CHOOSE k \in 1..Len(t) :
            /\ \A i \in 1..k : t[i] \in Labels \cup Noise
            /\ k < Len(t) => t[k + 1] \notin Labels \cup Noise

\* C22: SanitiseSummary returns None for a summary that is missing, empty or
\* blank; what it returns otherwise is never empty and has no blank at either
\* end; for a summary without template phrase and without movie_name it is the
\* summary without its leading run of labels, digits, blanks and colons,
\* trimmed, or None when nothing is left; "Scene 4: w" gives "w".
C22_SanitiseSummary ==
    pc = "Sanitised" =>
        /\ (arg.summary.none \/ NonBlank(arg.summary.text) = {}) => result = None
        /\ ~result.none =>
              /\ result.text # <<>>
              /\ Head(result.text) # " " /\ result.text[Len(result.text)] # " "
        /\ (/\ ~arg.summary.none /\ arg.movie_name = ""
            /\ \A i \in 1..Len(arg.summary.text) :
                  arg.summary.text[i] # "Summary of the batch") =>
              result = Trimmed(SubSeq(arg.summary.text, LeadingRun(arg.summary.text) + 1,
                                      Len(arg.summary.text)))
        /\ arg.summary = Str(<<"Scene", " ", "4", ":", " ", "w">>) => result = Str(<<"w">>)

\* SanitiseSummary has returned "w" for the summary "batch 4: w".
C22_Witness ==
    /\ pc = "Sanitised"
    /\ arg.summary = Str(<<"batch", " ", "4", ":", " ", "w">>)
    /\ result = Str(<<"w">>)

\* C25: in the context of a request the child wins a collision of keys: a key
\* of the batch's restored context has the batch's value, and a key of the
\* scene's context that the batch does not restore has the scene's value,
\* whether or not the document's context holds the key too.
C25_ChildOverridesParent ==
    pc = "ContextBuilt" =>
        \A k \in Keys :
            /\ (arg.restore /\ k \in DOMAIN arg.batch) => result[k] = "batch"
            /\ (k \in DOMAIN arg.scene /\ ~(arg.restore /\ k \in DOMAIN arg.batch)) =>
                  result[k] = "scene"

\* C23: once the run has been cancelled, its next step (the check before a
\* scene, before a batch, before a repair round, or the return of the request in
\* flight) ends it with Aborted, whatever stop_on_error says: no request and no
\* repair request is started, nothing is notified and no batch is changed.
C23_CancelUnwinds ==
    [][(/\ aborted /\ pc' # pc
        /\ pc \in {"Request", "Retry", "Repair"} => Raised(answer') = "none") =>
           /\ requests' = requests /\ repairs' = repairs
           /\ events' = events /\ batch' = batch
           /\ pc' = "Done" /\ outcome' = "Aborted"]_vars

\* The step leaves the scene by an exception: the scene is over and no
\* scene_translated notification has been added for it.
SceneLeftByException ==
    /\ pc' \in {"SceneLoop", "Done"}
    /\ Notified(events', "scene_translated", scene) = Notified(events, "scene_translated", scene)

\* C24, as stated: a failure of matching or validation in ProcessTranslation
\* leaves the scene by an exception exactly when stop_on_error is set, and then
\* ends the run; when it is unset the batch loop goes on.
C24_ReachesSceneIffStop ==
    [][(NewText /\ FirstPassError(Current, answer') # "none") =>
           /\ SceneLeftByException <=> Opt("stop_on_error")
           /\ Opt("stop_on_error") => pc' = "Done" /\ outcome' = "Failed"
           /\ ~Opt("stop_on_error") => outcome' \in {"running", "ok"}]_vars

\* C24, amended: such a failure leaves the scene by an exception exactly when
\* stop_on_error is set and allow_retranslations is unset, and then ends the
\* run with TranslationFailedError; with allow_retranslations set it is kept in
\* batch.errors and ProcessTranslation goes on to consider a repair; with both
\* unset the batch loop goes on with the next batch of the scene.
C24_ReachesSceneIffStopNoRepair ==
    [][(NewText /\ FirstPassError(Current, answer') # "none") =>
           /\ SceneLeftByException <=> (Opt("stop_on_error") /\ ~Opt("allow_retranslations"))
           /\ IF Opt("allow_retranslations")
              THEN /\ pc' = "Consider" /\ scene' = scene
                   /\ batch'[Current].errors = {FirstPassError(Current, answer')}
              ELSE IF Opt("stop_on_error")
              THEN pc' = "Done" /\ outcome' = "Failed"
              ELSE GoesOn]_vars

\* With stop_on_error set and no repair allowed, the result for the first batch
\* failed validation and ended the run before the second batch was sent.
C24_Witness ==
    /\ Opt("stop_on_error") /\ ~Opt("allow_retranslations")
    /\ pc = "Done" /\ outcome = "Failed"
    /\ answer.kind = "Text" /\ ~answer.valid
    /\ requests[<<1, 1>>] = 1 /\ requests[<<1, 2>>] = 0

\* A value that is a string with something in it.
Filled(v) == ~v.none /\ v.text # <<>>

\* C26: when retranslating, batch.summary and the summary, scene and synopsis
\* of the context are after the block what they were before it; otherwise a
\* summary of the result becomes, sanitised, batch.summary and the context's
\* summary, a scene of the result that survives sanitising becomes the
\* context's scene, and a synopsis of the result the context's synopsis.
C26_RetranslateKeepsContext ==
    pc = "Updated" =>
        IF arg.retranslate
        THEN result.batch_summary = arg.batch_summary /\ result.context = arg.context
        ELSE /\ result.context.summary = result.batch_summary
             /\ Filled(arg.translation.summary) =>
                   result.batch_summary \in {None, Str(<<"w">>)}
             /\ arg.translation.summary = Str(<<"w">>) => result.batch_summary = Str(<<"w">>)
             /\ Filled(arg.translation.scene) => result.context.scene = Str(<<"w">>)
             /\ Filled(arg.translation.synopsis) =>
                   result.context.synopsis = arg.translation.synopsis

\* A retranslation whose result carried a summary, a scene and a synopsis has
\* left the older summary of the batch and the older context in place.
C26_Witness ==
    /\ pc = "Updated" /\ arg.retranslate
    /\ arg.translation = [summary |-> Str(<<"w">>), scene |-> Str(<<"w">>),
                          synopsis |-> Str(<<"w">>)]
    /\ arg.batch_summary = Str(<<"w", " ", "w">>)
    /\ result.batch_summary = Str(<<"w", " ", "w">>)
    /\ result.context.summary = Str(<<"w", " ", "w">>)

\* The lines of the batch in hand that neither the first pass nor the repair
\* result of this step matched.
StillUnmatched == Lines(Current) \ (Numbers(translated) \cup answer'.parsed)

\* C27, as stated: when the repair result leaves lines of the batch unmatched,
\* batch.errors records them as an UntranslatedLinesError, they are not among the batch's
\* translated lines, the lines the first pass matched are, and the batch loop
\* goes on without an error, whatever stop_on_error and enforce_line_parity say.
C27_StillUnmatchedRecorded ==
    [][(Back("Repair") /\ RepairError(answer') = "none" /\ StillUnmatched # {}) =>
           /\ "Untranslated" \in batch'[Current].errors
           /\ Numbers(batch'[Current].translated) \cap StillUnmatched = {}
           /\ Numbers(translated) \subseteq Numbers(batch'[Current].translated)
           /\ GoesOn]_vars

\* C27, amended: when the repair result leaves lines of the batch unmatched,
\* batch.errors holds an UntranslatedLinesError and nothing else if the parser
\* found any line in the repair result, and is what the first pass left if it
\* found none; the unmatched lines are not among the batch's translated lines,
\* the lines the first pass matched are, and the batch loop goes on without an
\* error, whatever stop_on_error and enforce_line_parity say.
C27_StillUnmatchedKept ==
    [][(Back("Repair") /\ RepairError(answer') = "none" /\ StillUnmatched # {}) =>
           /\ batch'[Current].errors =
                 IF answer'.parsed # {} THEN {"Untranslated"} ELSE batch[Current].errors
           /\ Numbers(batch'[Current].translated) \cap StillUnmatched = {}
           /\ Numbers(translated) \subseteq Numbers(batch'[Current].translated)
           /\ GoesOn]_vars

\* With stop_on_error and enforce_line_parity set, the repair for the first
\* batch matched its first line only; the error is recorded, the line committed
\* and the second batch is next.
C27_Witness ==
    /\ Opt("stop_on_error") /\ Opt("enforce_line_parity")
    /\ pc = "BatchLoop" /\ scene = 1 /\ bidx = 2 /\ outcome = "running"
    /\ answer.kind = "Text" /\ ~answer.summary
    /\ answer.parsed = FirstLines(<<1, 1>>, 1)
    /\ repairs[<<1, 1>>] = 1
    /\ batch[<<1, 1>>].errors = {"Untranslated"}
    /\ Numbers(batch[<<1, 1>>].translated) = FirstLines(<<1, 1>>, 1)

\* C28: a timeout of a call that is not cancelled is answered, while fewer than
\* max_retries retries were made, by one more retry after a sleep of
\* backoff_time * 2^n for the n-th retry, and ends the call only after
\* max_retries retries; a connection error ends it at once with
\* TranslationImpossibleError.
C28_TimeoutBackoff ==
    [][(pc = "Create" /\ pc' # pc /\ ~aborted) =>
           /\ response' = "Timeout" =>
                 IF retries < max_retries
                 THEN /\ pc' = "Send" /\ retries' = retries + 1
                      /\ slept' = Append(slept, [why |-> "backoff",
                                                 factor |-> 2 ^ (retries + 1)])
                 ELSE pc' = "Done"
           /\ response' = "Connection" => pc' = "Done" /\ reply' = "Impossible"]_vars

\* C29: a run with resume set, without reparse, that met no fault and no
\* cancellation and returned normally has requested every batch that was not
\* fully translated when it started: a batch that was never requested is one
\* that needs no translation.
C29_ResumeDispatchesUnfinished ==
    (/\ pc = "Done" /\ outcome = "ok"
     /\ Opt("resume") /\ ~Opt("reparse")
     /\ faults = 0 /\ ~aborted) =>
        \A b \in Batches : requests[b] = 0 => BatchAllTranslated(b)

\* C30: a call of _send_messages sends at most max_retries + 1 requests.
C30_BoundedRequests ==
    sent <= max_retries + 1

\* The step in which TranslateSubtitles ends.
RunEnds == pc # "Done" /\ pc' = "Done"

\* The sequence q holds the translated lines of the batches bs, batch after
\* batch in document order, each batch's lines by number.
InDocumentOrder(q, bs) ==
    LET upto[i \in 0..(NumScenes + 1)] ==
            IF i = 0 THEN 0
            ELSE upto[i - 1] + Cardinality(Numbers(bs[BatchAt(i)].translated))
    IN  /\ Len(q) = upto[NumScenes + 1]
        /\ \A i \in 1..(NumScenes + 1) :
              /\ { q[j] : j \in (upto[i - 1] + 1)..upto[i] } = Numbers(bs[BatchAt(i)].translated)
              /\ \A j, k \in (upto[i - 1] + 1)..upto[i] : j < k => q[j] < q[k]

\* C31: subtitles.originals and subtitles.translated are written only in the
\* step in which TranslateSubtitles returns normally, and are then the lines of
\* the document and the translated lines of its batches, batch after batch in
\* document order; when the run ends with Aborted or another exception they
\* are what they were before the run, and that step takes back no translated
\* line and no summary of any batch.
C31_ProjectionsOnNormalReturn ==
    [][/\ subtitles' # subtitles => RunEnds /\ outcome' = "ok"
       /\ (RunEnds /\ outcome' = "ok") =>
             /\ subtitles'.by = "run"
             /\ subtitles'.originals = [i \in 1..NumLines |-> i]
             /\ InDocumentOrder(subtitles'.translated, batch')
       /\ (RunEnds /\ outcome' # "ok") =>
             /\ subtitles' = Before(has_lines)
             /\ \A b \in Batches :
                   /\ batch'[b].translated = batch[b].translated
                   /\ batch'[b].summary = batch[b].summary]_vars

\* The run was cancelled after the first batch was translated in full: the
\* batch keeps its lines, the document's projections are those of before.
C31_Witness ==
    /\ pc = "Done" /\ outcome = "Aborted"
    /\ subtitles = Before(TRUE)
    /\ Numbers(batch[<<1, 1>>].translated) = Lines(<<1, 1>>)
    /\ batch[<<1, 1>>].summary = "new"
    /\ Numbers(batch[<<1, 2>>].translated) = {}

\* The batch in hand was cut to the line budget, and the result in r holds a
\* valid translation of every line that was sent.
CutAndAnswered(r) ==
    /\ originals # Lines(Current)
    /\ r.kind = "Text" /\ r.valid /\ r.parsed = originals

\* C32: when the lines sent for a batch were cut to the line budget and the
\* result translates every line sent, the lines cut off are no failure of the
\* batch: no error is recorded or raised for it, the lines sent are committed,
\* the run does not end with an error and no repair request is made for the
\* batch, whatever enforce_line_parity and allow_retranslations say.
C32_CutLinesNoFailure ==
    [][/\ (NewText /\ CutAndAnswered(answer')) =>
             /\ batch'[Current].errors = {}
             /\ Numbers(batch'[Current].translated) = originals
             /\ pc' # "Consider"
             /\ outcome' \in {"running", "ok"}
       /\ (pc = "Consider" /\ CutAndAnswered(translation)) => repairs' = repairs]_vars

\* C33: no step resets the aborted flag once StopTranslating has set it, in
\* whichever call of TranslateSubtitles or between two calls; a call of
\* TranslateSubtitles that finds it set ends with TranslationAbortedError and
\* has not called AutoBatch, notified anything, made a request or a repair
\* request, or changed a batch or the document's projections.
C33_AbortedForGood ==
    [][/\ aborted => aborted'
       /\ (pc = "Start" /\ pc' # "Start" /\ aborted) =>
             /\ pc' = "Done" /\ outcome' = "Aborted"
             /\ auto_batched' = auto_batched /\ has_scenes' = has_scenes
             /\ events' = events
             /\ requests' = requests /\ repairs' = repairs /\ dispatched' = dispatched
             /\ batch' = batch /\ subtitles' = subtitles]_vars

\* StopTranslating came while the last request of the first call was under
\* way; that call returned normally and wrote the projections. The second call
\* has ended with Aborted: one request for each batch is still all there is.
C33_Witness ==
    /\ pc = "Done" /\ outcome = "Aborted" /\ aborted
    /\ subtitles.by = "run"
    /\ auto_batched = 1
    /\ \A b \in Batches : requests[b] = 1 /\ Numbers(batch[b].translated) = Lines(b)
    /\ Len(events) = 1 + Cardinality(Batches) + NumScenes
====
